---------------------------- MODULE Spec2Model ----------------------------
(***************************************************************************)
(* Model of the two engines of calculadora_margen:                         *)
(*                                                                         *)
(*   - CostCalculator (services/cost_calculator.py): the bounded           *)
(*     fixed-point propagation of component costs over the bill of         *)
(*     materials and the aggregation per manufacturing order;              *)
(*   - OutliersManager (services/outliers_manager.py): the iterative       *)
(*     z-score outlier correction.                                         *)
(*                                                                         *)
(* A nullable float is a sequence of length <= 1: <<>> is NaN/None and     *)
(* <<v>> is the number v.  Costs and consumptions are small integers, for  *)
(* which the float arithmetic of the code is exact.                        *)
(***************************************************************************)
EXTENDS Integers, Sequences, FiniteSets, TLC

VARIABLES
    fabricaciones,       \* CostCalculator.fabricaciones: sequence of rows
    pc,                  \* position of the caller: "idle", "loop" (inside calcular_costes_recursivamente),
                         \* "error" (the call raised), "invalid" (__init__ raised)
    i,                   \* loop index of `for i in range(max_iteraciones)`
    max_iteraciones,     \* argument of the running / last call
    nulos_anterior,      \* <<>> is float('inf'), <<n>> is n
    costes_fabricacion,  \* last result of generar_costes_fabricacion, <<>> before any call
    pasadas,             \* propagation passes (loop bodies run to the end) of the running / last call
    salida,              \* how the last call left the loop: "none", "resolved", "stall", "exhausted"
    entrada,             \* the table as it was when the running / last call started
    llamadas,            \* calls of calcular_costes_recursivamente made so far
    agregada,            \* the table generar_costes_fabricacion last read, <<>> before any call
    falta,               \* the required column the caller's table lacks, "" if none
    excepcion_c,         \* class of the exception the constructor or the last call raised, "" if none
    tabla_llamante,      \* the table object the caller gave the constructor, as it is now
    tabla_devuelta,      \* the table object calcular_costes_recursivamente last returned, as it
                         \* is now (<<>>: none yet)
    devuelta_era         \* that table as it was when it was returned

\* OutliersManager
VARIABLES
    df,                  \* OutliersManager.df: sequence of rows
    aux,                 \* the columns z_score / is_outlier exist in df
    params,              \* outliers_z_score, outliers_min_threshold, outliers_max_iterations
    count,               \* local count of process_outliers
    sum_outliers,        \* local sum_outliers of process_outliers
    summary,             \* OutliersManager._summary
    pc_o,                \* "idle", "while" (inside process_outliers, at the loop test),
                         \* "error" (process_outliers raised), "invalid" (__init__ raised)
    original,            \* the table the constructor was given
    antes,               \* df as it was when the running / last call of process_outliers started
    detecciones,         \* runs of _detect_outliers in the running / last call
    reemplazos,          \* values replaced by a clean mean in the running / last call
    procesos,            \* calls of process_outliers made so far
    rondas,              \* correction rounds made so far, over all calls
    excepcion,           \* class of the exception the constructor or the last method raised, "" if none
    df_llamante,         \* the table object the caller gave the constructor, as it is now
    df_obtenida,         \* the table object get_df last returned, as it is now (<<>>: none yet)
    obtenida_era         \* that table as it was when get_df returned it

\* DataFrameCleaner
VARIABLES
    df_cleaner,          \* DataFrameCleaner.df
    sub_cleaners,        \* _columns_cleaner, _rows_cleaner, _data_cleaner: <<>> is None,
                         \* <<t>> is a sub-cleaner whose own df is t
    esperada,            \* the original table with every operation called so far applied to it,
                         \* in call order
    operaciones,         \* cleaning operations called so far
    df_limpia            \* what get_df returned, if it was called after the last operation
                         \* (<<>>: it was not)

cvars == <<fabricaciones, pc, i, max_iteraciones, nulos_anterior,
           costes_fabricacion, pasadas, salida, entrada, llamadas, agregada,
           falta, excepcion_c, tabla_llamante, tabla_devuelta, devuelta_era>>

\* the table objects outside the CostCalculator
marco_c == <<tabla_llamante, tabla_devuelta, devuelta_era>>

ovars == <<df, aux, params, count, sum_outliers, summary, pc_o, original, antes,
           detecciones, reemplazos, procesos, rondas, excepcion,
           df_llamante, df_obtenida, obtenida_era>>

\* the table objects outside the OutliersManager
marco_o == <<df_llamante, df_obtenida, obtenida_era>>

lvars == <<df_cleaner, sub_cleaners, esperada, operaciones, df_limpia>>

vars == <<cvars, ovars, lvars>>

\* no DataFrameCleaner has been constructed
SinDataFrameCleaner ==
    /\ df_cleaner = <<>>
    /\ sub_cleaners = <<>>
    /\ esperada = <<>>
    /\ operaciones = 0
    /\ df_limpia = <<>>

-----------------------------------------------------------------------------
(* Bounds of the model *)

MaxFilas == 3          \* rows of an input table
MaxIteraciones == 2    \* largest max_iteraciones a caller passes

-----------------------------------------------------------------------------
(* Nullable floats *)

NaN == <<>>

isna(x) == x = NaN

notna(x) == x # NaN

-----------------------------------------------------------------------------
(* Identifiers.  Orden(s) is the position of the string s in the           *)
(* lexicographic order pandas' groupby sorts its keys by.                  *)

Nombres == <<"L1", "L2", "MP1", "MP2", "PT1", "SEM1", "SEM2">>

Orden(s) == CHOOSE k \in DOMAIN Nombres : Nombres[k] = s

\* str.startswith('SEM')
startswith_SEM(s) == s \in {"SEM1", "SEM2"}


-----------------------------------------------------------------------------
(* Input tables.  A row of the consumption table carries the columns the   *)
(* two methods read.  Row order has no effect on either method (groupby    *)
(* sorts its keys, masks are order-free), so a table is enumerated once,   *)
(* with its rows in the order of Codigo.                                   *)

Fila(o, f, a, l, u, c, q, k) ==
    [id_orden |-> o, fecha_fabricacion |-> f, articulo |-> a, lote_articulo |-> l,
     unidades_fabricadas |-> u, componente |-> c, consumo_unitario |-> q,
     coste_componente_unitario |-> k]

CodCoste(k) == IF isna(k) THEN 0 ELSE k[1]

Codigo(r) ==
    (((((r.id_orden * 4 + r.fecha_fabricacion) * 8 + Orden(r.articulo)) * 8
        + Orden(r.lote_articulo)) * 8 + Orden(r.componente)) * 4
        + r.consumo_unitario) * 32 + CodCoste(r.coste_componente_unitario)

RECURSIVE Tablas(_, _, _)
Tablas(U, n, lo) ==
    IF n = 0 THEN {<<>>}
    ELSE UNION { { <<r>> \o t : t \in Tablas(U, n - 1, Codigo(r)) } :
                 r \in {u \in U : Codigo(u) >= lo} }

TablasHasta(U, n) == UNION { Tablas(U, m, 0) : m \in 1..n }

\* Bill-of-materials universe: one manufacturing order per product batch, each
\* with its own consumption per unit; SEM1 is made in two batches.  A line of
\* the universe is a batch consuming MP1, SEM1 or SEM2 (so a semi-finished
\* product may consume itself or the other one), its cost known or missing.
Instancias ==
    { [o |-> 1, f |-> 3, a |-> "PT1",  l |-> "L1", q |-> 2],
      [o |-> 2, f |-> 1, a |-> "SEM1", l |-> "L1", q |-> 3],
      [o |-> 3, f |-> 2, a |-> "SEM1", l |-> "L2", q |-> 2],
      [o |-> 4, f |-> 1, a |-> "SEM2", l |-> "L1", q |-> 3] }

Componentes == {"MP1", "SEM1", "SEM2"}

Costes == {NaN, <<5>>}

FilasBOM ==
    { Fila(p.o, p.f, p.a, p.l, 10, c, p.q, k) :
        p \in Instancias, c \in Componentes, k \in Costes }

\* Orders universe: two order numbers and two dates for batch L1 of PT1, the
\* consumption lines of consumption 2 or 1, with cost 15, 5 or missing.
ConsumoYCoste == { <<2, <<15>> >>, <<1, <<5>> >>, <<2, NaN>>, <<1, NaN>> }

FilasOrdenes ==
    { Fila(o, f, "PT1", "L1", 10, "MP1", qk[1], qk[2]) :
        o \in {1, 2}, f \in {1, 2}, qk \in ConsumoYCoste }

-----------------------------------------------------------------------------
(* CostCalculator *)

Filas(t) == DOMAIN t

\* __init__: flag_coste_calculado = ~componente.str.startswith('SEM')
FlagInicial(r) == ~startswith_SEM(r.componente)

Constructor(t) ==
    [n \in DOMAIN t |->
        [id_orden |-> t[n].id_orden,
         fecha_fabricacion |-> t[n].fecha_fabricacion,
         articulo |-> t[n].articulo,
         lote_articulo |-> t[n].lote_articulo,
         unidades_fabricadas |-> t[n].unidades_fabricadas,
         componente |-> t[n].componente,
         consumo_unitario |-> t[n].consumo_unitario,
         coste_componente_unitario |-> t[n].coste_componente_unitario,
         flag_coste_calculado |-> FlagInicial(t[n])]]

\* fabricaciones['coste_componente_unitario'].isna().sum()
Nulos(t) == Cardinality({n \in Filas(t) : isna(t[n].coste_componente_unitario)})

\* Series.sum() of a product column over the rows of S: NaN terms are skipped
\* (skipna=True), the empty sum is 0.
RECURSIVE SumaSkipNa(_, _)
SumaSkipNa(t, S) ==
    IF S = {} THEN 0
    ELSE LET n == CHOOSE m \in S : TRUE
             x == t[n].coste_componente_unitario
         IN  (IF isna(x) THEN 0 ELSE t[n].consumo_unitario * x[1])
             + SumaSkipNa(t, S \ {n})

\* mask_producto
MaskProducto(t, producto) ==
    {n \in Filas(t) : t[n].articulo = producto[1] /\ t[n].lote_articulo = producto[2]}

\* (mutant) the total without the consumption weights
RECURSIVE SumaCostes(_, _)
SumaCostes(t, S) ==
    IF S = {} THEN 0
    ELSE LET n == CHOOSE m \in S : TRUE
             x == t[n].coste_componente_unitario
         IN  (IF isna(x) THEN 0 ELSE x[1]) + SumaCostes(t, S \ {n})

CosteTotalSinConsumo(t, producto) == SumaCostes(t, MaskProducto(t, producto))

\* coste_total of _calcular_coste_producto
CosteTotal(t, producto) == SumaSkipNa(t, MaskProducto(t, producto))

\* mask_como_componente
MaskComoComponente(t, producto) ==
    {n \in Filas(t) : t[n].componente = producto[1]}

\* (mutant) the total is also written to the product's own rows
CalcularCosteProductoYPropias(t, producto) ==
    LET coste_total == CosteTotal(t, producto)
        mask == MaskComoComponente(t, producto) \cup MaskProducto(t, producto)
    IN  [n \in DOMAIN t |->
            IF n \in mask
            THEN [t[n] EXCEPT !.coste_componente_unitario = <<coste_total>>,
                              !.flag_coste_calculado = TRUE]
            ELSE t[n]]

\* (mutant) the rows of the consumers are emptied instead of filled
CalcularCosteProductoNulo(t, producto) ==
    LET mask == MaskComoComponente(t, producto)
    IN  [n \in DOMAIN t |->
            IF n \in mask
            THEN [t[n] EXCEPT !.coste_componente_unitario = NaN,
                              !.flag_coste_calculado = TRUE]
            ELSE t[n]]

\* _calcular_coste_producto
CalcularCosteProducto(t, producto) ==
    LET coste_total == CosteTotal(t, producto)
        mask == MaskComoComponente(t, producto)
    IN  [n \in DOMAIN t |->
            IF n \in mask
            THEN [t[n] EXCEPT !.coste_componente_unitario = <<coste_total>>,
                              !.flag_coste_calculado = TRUE]
            ELSE t[n]]

\* the (articulo, lote_articulo) groups of the table
Grupos(t) == { <<t[n].articulo, t[n].lote_articulo>> : n \in Filas(t) }

\* productos_calculables: groups all of whose rows have a cost
Calculables(t) ==
    { g \in Grupos(t) :
        \A n \in MaskProducto(t, g) : notna(t[n].coste_componente_unitario) }

\* groupby sorts the groups by (articulo, lote_articulo)
Antes(g, h) ==
    \/ Orden(g[1]) < Orden(h[1])
    \/ g[1] = h[1] /\ Orden(g[2]) < Orden(h[2])

Primero(G) == CHOOSE g \in G : \A h \in G \ {g} : Antes(g, h)

\* for _, producto in calculables.iterrows(): self._calcular_coste_producto(producto)
RECURSIVE Propagar(_, _)
Propagar(t, G) ==
    IF G = {} THEN t
    ELSE LET g == Primero(G)
         IN  Propagar(CalcularCosteProducto(t, g), G \ {g})

\* flag_coste_calculado = coste_componente_unitario.notna()
ActualizarFlags(t) ==
    [n \in DOMAIN t |->
        [t[n] EXCEPT !.flag_coste_calculado = notna(t[n].coste_componente_unitario)]]

\* the body of one loop iteration after the two break tests
CuerpoPasada(t) == ActualizarFlags(Propagar(t, Calculables(t)))

\* (mutant) the loop runs one iteration too many
EnRangoMasUno(k, m) == k <= m

\* for i in range(max_iteraciones): the loop has a k-th iteration (k from 0)
EnRango(k, m) == k < m

\* if nulos_actual == 0: break
TodosResueltos(nulos_actual) == nulos_actual = 0

\* (mutant) the stall test with > for >=
EstancadoEstricto(nulos_actual, anterior) ==
    anterior # <<>> /\ nulos_actual > anterior[1]

\* if nulos_actual >= nulos_anterior: break      (nulos_anterior starts at inf)
Estancado(nulos_actual, anterior) ==
    anterior # <<>> /\ nulos_actual >= anterior[1]

\* generar_costes_fabricacion ------------------------------------------------

\* df_trabajo['coste_unitario'] = coste_componente_unitario * consumo_unitario:
\* NaN * x is NaN
CosteUnitarioFila(r) ==
    IF isna(r.coste_componente_unitario) THEN NaN
    ELSE <<r.coste_componente_unitario[1] * r.consumo_unitario>>

\* (mutant) grouping without the date
ClaveOrdenSinFecha(r) ==
    <<r.id_orden, 1, r.articulo, r.unidades_fabricadas>>

\* the groupby key of a row
ClaveOrden(r) ==
    <<r.id_orden, r.fecha_fabricacion, r.articulo, r.unidades_fabricadas>>

ClavesOrden(t) == { ClaveOrden(t[n]) : n \in Filas(t) }

FilasDeOrden(t, clave) == { n \in Filas(t) : ClaveOrden(t[n]) = clave }

\* GroupBy.sum() of coste_unitario over the rows of S: NaN values are skipped and
\* a group without any value sums to 0 (min_count=0)
RECURSIVE SumaValores(_, _)
SumaValores(t, S) ==
    IF S = {} THEN 0
    ELSE LET n == CHOOSE m \in S : TRUE
             x == CosteUnitarioFila(t[n])
         IN  (IF isna(x) THEN 0 ELSE x[1]) + SumaValores(t, S \ {n})

\* (mutant) a sum that a NaN value turns into NaN
SumaGrupoPropagaNaN(t, S) ==
    IF \E n \in S : isna(CosteUnitarioFila(t[n])) THEN NaN ELSE <<SumaValores(t, S)>>

SumaGrupo(t, S) == <<SumaValores(t, S)>>

FilaOrden(t, clave) ==
    [id_orden |-> clave[1], fecha_fabricacion |-> clave[2], articulo |-> clave[3],
     unidades_fabricadas |-> clave[4],
     coste_unitario |-> SumaGrupo(t, FilasDeOrden(t, clave))]

\* groupby leaves the groups in key order; sort_values('fecha_fabricacion') on
\* the few rows of a result keeps that order among equal dates
ClaveAntes(c, d) ==
    \/ c[2] < d[2]
    \/ c[2] = d[2] /\ c[1] < d[1]
    \/ c[2] = d[2] /\ c[1] = d[1] /\ Orden(c[3]) < Orden(d[3])
    \/ c[2] = d[2] /\ c[1] = d[1] /\ c[3] = d[3] /\ c[4] < d[4]

RECURSIVE OrdenarPorFecha(_, _)
OrdenarPorFecha(t, C) ==
    IF C = {} THEN <<>>
    ELSE LET c == CHOOSE x \in C : \A y \in C \ {x} : ClaveAntes(x, y)
         IN  <<FilaOrden(t, c)>> \o OrdenarPorFecha(t, C \ {c})

GenerarCostes(t) == OrdenarPorFecha(t, ClavesOrden(t))

-----------------------------------------------------------------------------
(* The caller's operations on a CostCalculator *)

MaxLlamadas == 2       \* calls of calcular_costes_recursivamente / process_outliers on one instance

\* no OutliersManager has been constructed
SinOutliersManager ==
    /\ df = <<>>
    /\ aux = FALSE
    /\ params = <<>>
    /\ count = 0
    /\ sum_outliers = 0
    /\ summary = <<>>
    /\ pc_o = "none"
    /\ original = <<>>
    /\ antes = <<>>
    /\ detecciones = 0
    /\ reemplazos = 0
    /\ procesos = 0
    /\ rondas = 0
    /\ excepcion = ""
    /\ df_llamante = <<>>
    /\ df_obtenida = <<>>
    /\ obtenida_era = <<>>

\* the columns calcular_costes_recursivamente needs
ColumnasRequeridas ==
    {"componente", "coste_componente_unitario", "consumo_unitario", "articulo",
     "lote_articulo"}

\* (mutant) __init__ keeps the caller's table instead of a copy
SinCopiaAlConstruir == FALSE

\* __init__: self.fabricaciones = fabricaciones.copy()
CopiaAlConstruir == TRUE

\* calcular_costes_recursivamente: return self.fabricaciones
DevuelveLaPropia == TRUE

\* the content of a table object after self.fabricaciones was written in place
\* with the content nueva: the same content if it is that object
TrasEscribir(objeto, es_la_propia, nueva) == IF es_la_propia THEN nueva ELSE objeto

\* __init__ reads fabricaciones['componente'] and groups by 'articulo': KeyError
\* when the table lacks one of them
ConstructorLanza(f) == f \in {"componente", "articulo"}

\* _print_concise_summary and the head of every iteration read
\* coste_componente_unitario
ResumenLanza(f) == f = "coste_componente_unitario"

\* the body of an iteration groups by lote_articulo, and reads consumo_unitario
\* when it has a product to compute
PasadaLanza(t, f) ==
    \/ f = "lote_articulo"
    \/ f = "consumo_unitario" /\ Calculables(t) # {}

\* CostCalculator.__init__ on a table of T that lacks the column f ("": none)
InitConFalta(T, F) ==
    /\ falta \in F
    /\ \E t \in T :
          /\ fabricaciones = IF ConstructorLanza(falta) THEN <<>> ELSE Constructor(t)
          /\ tabla_llamante = TrasEscribir(t, ~CopiaAlConstruir, Constructor(t))
    /\ pc = IF ConstructorLanza(falta) THEN "invalid" ELSE "idle"
    /\ excepcion_c = IF ConstructorLanza(falta) THEN "KeyError" ELSE ""
    /\ i = 0
    /\ max_iteraciones = 0
    /\ nulos_anterior = <<>>
    /\ costes_fabricacion = <<>>
    /\ pasadas = 0
    /\ salida = "none"
    /\ entrada = fabricaciones
    /\ llamadas = 0
    /\ agregada = <<>>
    /\ tabla_devuelta = <<>>
    /\ devuelta_era = <<>>
    /\ SinOutliersManager
    /\ SinDataFrameCleaner

InitCon(U) == InitConFalta(TablasHasta(U, MaxFilas), {""})

Init == InitCon(FilasBOM)

\* calcular_costes_recursivamente(m) is entered: nulos_anterior = float('inf')
Llamar(m) ==
    /\ pc \in {"idle", "error"}
    /\ llamadas < MaxLlamadas
    /\ pc' = "loop"
    /\ i' = 0
    /\ max_iteraciones' = m
    /\ nulos_anterior' = <<>>
    /\ pasadas' = 0
    /\ salida' = "none"
    /\ entrada' = fabricaciones
    /\ llamadas' = llamadas + 1
    /\ excepcion_c' = ""
    /\ UNCHANGED <<fabricaciones, costes_fabricacion, agregada, falta>>
    /\ UNCHANGED marco_c
    /\ UNCHANGED <<ovars, lvars>>

\* _print_concise_summary(); return self.fabricaciones
Volver(motivo) ==
    /\ ~ResumenLanza(falta)
    /\ pc' = "idle"
    /\ salida' = motivo
    /\ tabla_devuelta' = fabricaciones
    /\ devuelta_era' = fabricaciones
    /\ UNCHANGED <<fabricaciones, i, max_iteraciones, nulos_anterior,
                   costes_fabricacion, pasadas, entrada, llamadas, agregada,
                   falta, excepcion_c, tabla_llamante>>
    /\ UNCHANGED <<ovars, lvars>>

\* range(max_iteraciones) is exhausted
Agotado ==
    /\ pc = "loop"
    /\ ~EnRango(i, max_iteraciones)
    /\ Volver("exhausted")

\* first break
TodosCalculados ==
    /\ pc = "loop"
    /\ EnRango(i, max_iteraciones)
    /\ TodosResueltos(Nulos(fabricaciones))
    /\ Volver("resolved")

\* second break
SinProgreso ==
    /\ pc = "loop"
    /\ EnRango(i, max_iteraciones)
    /\ ~TodosResueltos(Nulos(fabricaciones))
    /\ Estancado(Nulos(fabricaciones), nulos_anterior)
    /\ Volver("stall")

\* a loop iteration that reaches its end
Pasada ==
    /\ pc = "loop"
    /\ EnRango(i, max_iteraciones)
    /\ ~TodosResueltos(Nulos(fabricaciones))
    /\ ~Estancado(Nulos(fabricaciones), nulos_anterior)
    /\ ~ResumenLanza(falta)
    /\ ~PasadaLanza(fabricaciones, falta)
    /\ nulos_anterior' = <<Nulos(fabricaciones)>>
    /\ fabricaciones' = CuerpoPasada(fabricaciones)
    /\ i' = i + 1
    /\ pasadas' = pasadas + 1
    /\ tabla_llamante' = TrasEscribir(tabla_llamante, ~CopiaAlConstruir, fabricaciones')
    /\ tabla_devuelta' = TrasEscribir(tabla_devuelta,
                                      tabla_devuelta # <<>> /\ DevuelveLaPropia,
                                      fabricaciones')
    /\ UNCHANGED <<pc, max_iteraciones, costes_fabricacion, salida, entrada, llamadas,
                   agregada, falta, excepcion_c, devuelta_era>>
    /\ UNCHANGED <<ovars, lvars>>

\* the call raises KeyError: a column it reads is not in the table
ErrorColumna ==
    /\ pc = "loop"
    /\ \/ ResumenLanza(falta)
       \/ /\ EnRango(i, max_iteraciones)
          /\ ~TodosResueltos(Nulos(fabricaciones))
          /\ ~Estancado(Nulos(fabricaciones), nulos_anterior)
          /\ PasadaLanza(fabricaciones, falta)
    /\ pc' = "error"
    /\ excepcion_c' = "KeyError"
    /\ UNCHANGED <<fabricaciones, i, max_iteraciones, nulos_anterior,
                   costes_fabricacion, pasadas, salida, entrada, llamadas, agregada,
                   falta>>
    /\ UNCHANGED marco_c
    /\ UNCHANGED <<ovars, lvars>>

GenerarCostesFabricacion ==
    /\ pc = "idle"
    /\ costes_fabricacion' = GenerarCostes(fabricaciones)
    /\ agregada' = fabricaciones
    /\ UNCHANGED <<fabricaciones, pc, i, max_iteraciones, nulos_anterior,
                   pasadas, salida, entrada, llamadas, falta, excepcion_c>>
    /\ UNCHANGED marco_c
    /\ UNCHANGED <<ovars, lvars>>

\* propagation over the bill-of-materials universe
Next ==
    \/ \E m \in 0..MaxIteraciones : Llamar(m)
    \/ Agotado
    \/ TodosCalculados
    \/ SinProgreso
    \/ Pasada

Spec == Init /\ [][Next]_vars

\* propagation and aggregation over the orders universe
InitAgg == InitCon(FilasOrdenes)

NextAgg ==
    \/ \E m \in 0..MaxIteraciones : Llamar(m)
    \/ Agotado
    \/ TodosCalculados
    \/ SinProgreso
    \/ Pasada
    \/ GenerarCostesFabricacion

SpecAgg == InitAgg /\ [][NextAgg]_vars

\* propagation over tables that may lack a required column
InitCol == InitConFalta(TablasHasta(FilasBOM, MaxFilas - 1), ColumnasRequeridas \cup {""})

NextCol ==
    \/ \E m \in 0..MaxIteraciones : Llamar(m)
    \/ Agotado
    \/ TodosCalculados
    \/ SinProgreso
    \/ Pasada
    \/ ErrorColumna

SpecCol == InitCol /\ [][NextCol]_vars

\* the lines of the bill-of-materials universe that follow the propagator's
\* contract: the cost of a semi-finished component is missing, that of a raw
\* material is known
FilasContrato ==
    { r \in FilasBOM : startswith_SEM(r.componente) <=> isna(r.coste_componente_unitario) }

\* propagation over the tables of the contract, of one row more
InitContrato == InitConFalta(TablasHasta(FilasContrato, MaxFilas + 1), {""})

SpecContrato == InitContrato /\ [][Next]_vars

-----------------------------------------------------------------------------
(* Vocabulary of the claims about the cost propagator *)

\* calcular_costes_recursivamente has returned
Devuelto == pc = "idle" /\ salida # "none"

Articulos(t) == { t[n].articulo : n \in Filas(t) }

FilasDeArticulo(t, a) == { n \in Filas(t) : t[n].articulo = a }

ComponentesDe(t, a) == { t[n].componente : n \in FilasDeArticulo(t, a) }

Maximo(S) == IF S = {} THEN 0 ELSE CHOOSE x \in S : \A y \in S : y <= x

\* dependency depth of component c, explored k levels down: 0 for a component
\* that is no product, else one more than its deepest component
RECURSIVE Prof(_, _, _)
Prof(t, c, k) ==
    IF k = 0 \/ c \notin Articulos(t) THEN 0
    ELSE 1 + Maximo({ Prof(t, d, k - 1) : d \in ComponentesDe(t, c) })

Profundidad(t, c) == Prof(t, c, Cardinality(Articulos(t)) + 1)

\* a cycle makes the exploration run to its last level
Aciclica(t) == \A a \in Articulos(t) : Profundidad(t, a) <= Cardinality(Articulos(t))

ProfundidadTabla(t) == Maximo({ Profundidad(t, t[n].componente) : n \in Filas(t) })

UnSoloLote(t) ==
    \A n, m \in Filas(t) : t[n].articulo = t[m].articulo => t[n].lote_articulo = t[m].lote_articulo

NoSemConocidos(t) ==
    \A n \in Filas(t) : ~startswith_SEM(t[n].componente) => notna(t[n].coste_componente_unitario)

SemSonProductos(t) ==
    \A n \in Filas(t) : startswith_SEM(t[n].componente) => t[n].componente \in Articulos(t)

SemDesconocidos(t) ==
    \A n \in Filas(t) : startswith_SEM(t[n].componente) => isna(t[n].coste_componente_unitario)

\* sum(consumo_unitario * coste_componente_unitario) over the rows of article a
SumaArticulo(t, a) == SumaSkipNa(t, FilasDeArticulo(t, a))

TodoResuelto(t) ==
    \A n \in Filas(t) : notna(t[n].coste_componente_unitario) /\ t[n].flag_coste_calculado

PuntoFijo(t) ==
    \A n \in Filas(t) :
        t[n].componente \in Articulos(t)
            => t[n].coste_componente_unitario = <<SumaArticulo(t, t[n].componente)>>

\* the 2-level case: PT1 consumes SEM1 (cost unknown), SEM1 consumes MP1 (qty 3, cost 5)
DosNiveles(t) ==
    /\ Len(t) = 2
    /\ t[1].articulo = "PT1" /\ t[1].componente = "SEM1"
    /\ isna(t[1].coste_componente_unitario)
    /\ t[2].articulo = "SEM1" /\ t[2].componente = "MP1"
    /\ t[2].consumo_unitario = 3 /\ t[2].coste_componente_unitario = <<5>>

\* the steps of the loop of calcular_costes_recursivamente
Bucle == Agotado \/ TodosCalculados \/ SinProgreso \/ Pasada

-----------------------------------------------------------------------------
(* C1 *)

C1_Pre ==
    /\ Aciclica(entrada)
    /\ UnSoloLote(entrada)
    /\ NoSemConocidos(entrada)
    /\ SemSonProductos(entrada)
    /\ ProfundidadTabla(entrada) <= max_iteraciones

C1_Post ==
    /\ TodoResuelto(fabricaciones)
    /\ PuntoFijo(fabricaciones)
    /\ DosNiveles(entrada) =>
          pasadas = 1 /\ fabricaciones[1].coste_componente_unitario = <<15>>

-----------------------------------------------------------------------------
(* C2 *)

\* S1 consumes S2 and S2 consumes S1, both costs unknown
Ciclo(t) ==
    /\ Len(t) = 2
    /\ t[1].articulo = "SEM1" /\ t[1].componente = "SEM2"
    /\ t[2].articulo = "SEM2" /\ t[2].componente = "SEM1"
    /\ isna(t[1].coste_componente_unitario)
    /\ isna(t[2].coste_componente_unitario)

\* C2: at the start of a pass after the first, a count of rows without cost that
\* did not decrease ends the call with the table as it is (no further pass); and
\* the call on the 2-cycle returns with both rows still without cost.
C2_Estancamiento ==
    /\ [][ (/\ pc = "loop"
            /\ i >= 1
            /\ EnRango(i, max_iteraciones)
            /\ Nulos(fabricaciones) >= nulos_anterior[1])
           => (/\ pc' = "idle"
               /\ fabricaciones' = fabricaciones
               /\ pasadas' = pasadas) ]_vars
    /\ []((Devuelto /\ Ciclo(entrada)) =>
            /\ fabricaciones = entrada
            /\ Nulos(fabricaciones) = 2)

\* the call on the 2-cycle stopped at the stall test
C2_Witness ==
    /\ Devuelto
    /\ Ciclo(entrada)
    /\ salida = "stall"
    /\ pasadas = 1

-----------------------------------------------------------------------------
(* C3 *)

\* a chain of semi-finished components: no cycle, one batch per product, and
\* the rows that consume a semi-finished component start without a cost
Cadena(t) == Aciclica(t) /\ UnSoloLote(t) /\ SemDesconocidos(t)

QuedaProfundoNulo ==
    \E n \in Filas(fabricaciones) :
        /\ Profundidad(entrada, entrada[n].componente) > max_iteraciones
        /\ isna(fabricaciones[n].coste_componente_unitario)

\* C3: when the call on a chain deeper than max_iteraciones has returned, some
\* row that consumes a component deeper than max_iteraciones has no cost, so the
\* count of rows without cost is not zero.
C3_NoConverge ==
    (Devuelto /\ Cadena(entrada) /\ ProfundidadTabla(entrada) > max_iteraciones)
        => (QuedaProfundoNulo /\ Nulos(fabricaciones) > 0)

\* a chain of depth 2 run with max_iteraciones = 1: the first level was resolved,
\* the second was not
C3_Witness ==
    /\ Devuelto
    /\ Cadena(entrada)
    /\ ProfundidadTabla(entrada) = 2
    /\ max_iteraciones = 1
    /\ pasadas = 1
    /\ Nulos(fabricaciones) < Nulos(entrada)
    /\ QuedaProfundoNulo

-----------------------------------------------------------------------------
(* C4 *)

\* C4: a call never makes more than max_iteraciones passes, and it returns:
\* every step of the loop either returns or completes one more of the at most
\* max_iteraciones passes.
C4_Termina ==
    /\ [](pasadas <= max_iteraciones /\ i <= max_iteraciones)
    /\ [][ pc = "loop" =>
             \/ Devuelto'
             \/ pc' = "loop" /\ i' = i + 1 /\ pasadas' = pasadas + 1 ]_vars

\* a call on a table with a product that consumes itself used all its passes
C4_Witness ==
    /\ Devuelto
    /\ salida = "exhausted"
    /\ max_iteraciones >= 1
    /\ pasadas = max_iteraciones
    /\ Nulos(fabricaciones) > 0
    /\ \E n \in Filas(entrada) : entrada[n].articulo = entrada[n].componente

-----------------------------------------------------------------------------
(* C5 *)

FlagsCoherentes(t) ==
    \A n \in Filas(t) :
        t[n].flag_coste_calculado <=> notna(t[n].coste_componente_unitario)

\* C5: in the returned table a row is flagged iff it has a cost.
C5_Original == Devuelto => FlagsCoherentes(fabricaciones)

-----------------------------------------------------------------------------
(* C6 *)

MismaClave(r, o) ==
    /\ r.id_orden = o.id_orden
    /\ r.fecha_fabricacion = o.fecha_fabricacion
    /\ r.articulo = o.articulo
    /\ r.unidades_fabricadas = o.unidades_fabricadas

\* sum of coste_componente_unitario * consumo_unitario over the rows of S that
\* have a cost
RECURSIVE SumaConCoste(_, _)
SumaConCoste(t, S) ==
    IF S = {} THEN 0
    ELSE LET n == CHOOSE m \in S : TRUE
         IN  (IF isna(t[n].coste_componente_unitario) THEN 0
              ELSE t[n].coste_componente_unitario[1] * t[n].consumo_unitario)
             + SumaConCoste(t, S \ {n})

FilasConClave(t, o) == { n \in Filas(t) : MismaClave(t[n], o) }

Generado == costes_fabricacion # <<>>

\* C6: run on a table without missing costs, generar_costes_fabricacion returns
\* one row per (id_orden, fecha_fabricacion, articulo, unidades_fabricadas) of
\* the table and no other, holding the sum of
\* coste_componente_unitario * consumo_unitario over the rows of that key.
C6_Agregacion ==
    (Generado /\ Nulos(agregada) = 0) =>
        /\ \A n \in Filas(agregada) :
              Cardinality({ j \in DOMAIN costes_fabricacion :
                              MismaClave(agregada[n], costes_fabricacion[j]) }) = 1
        /\ \A j \in DOMAIN costes_fabricacion :
              /\ FilasConClave(agregada, costes_fabricacion[j]) # {}
              /\ costes_fabricacion[j].coste_unitario =
                    <<SumaConCoste(agregada, FilasConClave(agregada, costes_fabricacion[j]))>>

\* costs 15 and 5 with consumptions 2 and 1 under one key gave 35, next to a
\* second order
C6_Witness ==
    /\ Generado
    /\ Nulos(agregada) = 0
    /\ Len(costes_fabricacion) = 2
    /\ \E j \in DOMAIN costes_fabricacion :
          /\ costes_fabricacion[j].coste_unitario = <<35>>
          /\ \E n, m \in FilasConClave(agregada, costes_fabricacion[j]) :
                /\ agregada[n].coste_componente_unitario = <<15>>
                /\ agregada[n].consumo_unitario = 2
                /\ agregada[m].coste_componente_unitario = <<5>>
                /\ agregada[m].consumo_unitario = 1

-----------------------------------------------------------------------------
(* C7 *)

TieneNulo(t, o) ==
    \E n \in FilasConClave(t, o) : isna(t[n].coste_componente_unitario)

\* C7 as stated: an order with a row without cost gets a null aggregated
\* coste_unitario.
C7_Original ==
    Generado =>
        \A j \in DOMAIN costes_fabricacion :
            TieneNulo(agregada, costes_fabricacion[j])
                => isna(costes_fabricacion[j].coste_unitario)

\* C7 amended: an order with a row without cost gets the sum over its rows that
\* have a cost (0 when none has), a number and never null.
C7_SumaParcial ==
    Generado =>
        \A j \in DOMAIN costes_fabricacion :
            TieneNulo(agregada, costes_fabricacion[j])
                => /\ notna(costes_fabricacion[j].coste_unitario)
                   /\ costes_fabricacion[j].coste_unitario =
                        <<SumaConCoste(agregada,
                                       FilasConClave(agregada, costes_fabricacion[j]))>>

\* an order with one row of cost 15, consumption 2, and one row without cost
\* was aggregated to 30
C7_Witness ==
    /\ Generado
    /\ \E j \in DOMAIN costes_fabricacion :
          /\ costes_fabricacion[j].coste_unitario = <<30>>
          /\ TieneNulo(agregada, costes_fabricacion[j])
          /\ \E n \in FilasConClave(agregada, costes_fabricacion[j]) :
                /\ agregada[n].coste_componente_unitario = <<15>>
                /\ agregada[n].consumo_unitario = 2

-----------------------------------------------------------------------------
(* OutliersManager.  A value is NaN or a rational <<numerator, denominator>>  *)
(* in lowest terms with a positive denominator, so that means, variances and *)
(* the z-score test are exact; the rounding of the floats is not modelled.   *)
(* |z| > tau is tested as (x - mean)^2 > tau^2 * var, which is the same for  *)
(* std > 0 and tau >= 0.  The z_score column itself is not stored.           *)

Abs(n) == IF n < 0 THEN -n ELSE n

RECURSIVE MCD(_, _)
MCD(a, b) == IF b = 0 THEN a ELSE MCD(b, a % b)

Q(n, d) == LET g == MCD(Abs(n), d) IN <<n \div g, d \div g>>

\* common factors are divided out before multiplying, to keep the integers small
QSuma(x, y) ==
    LET g == MCD(x[2], y[2])
    IN  Q(x[1] * (y[2] \div g) + y[1] * (x[2] \div g), (x[2] \div g) * y[2])

QResta(x, y) == QSuma(x, <<-y[1], y[2]>>)

QProd(x, y) ==
    LET g == MCD(Abs(x[1]), y[2])
        h == MCD(Abs(y[1]), x[2])
    IN  Q((x[1] \div g) * (y[1] \div h), (x[2] \div h) * (y[2] \div g))

QEntre(x, k) == QProd(x, <<1, k>>)

QMenor(x, y) ==
    LET g == MCD(x[2], y[2])
    IN  x[1] * (y[2] \div g) < y[1] * (x[2] \div g)

QCero == <<0, 1>>

\* the indices of a sequence of rows that have a value
ConValor(g) == { k \in DOMAIN g : notna(g[k].valor) }

RECURSIVE QSumaValores(_, _)
QSumaValores(g, S) ==
    IF S = {} THEN QCero
    ELSE LET k == CHOOSE m \in S : TRUE
         IN  QSuma(g[k].valor, QSumaValores(g, S \ {k}))

\* Series.mean(): NaN values are skipped; NaN when no value is left
Media(g) ==
    IF ConValor(g) = {} THEN NaN
    ELSE QEntre(QSumaValores(g, ConValor(g)), Cardinality(ConValor(g)))

RECURSIVE QSumaCuadrados(_, _, _)
QSumaCuadrados(g, S, m) ==
    IF S = {} THEN QCero
    ELSE LET k == CHOOSE j \in S : TRUE
             d == QResta(g[k].valor, m)
         IN  QSuma(QProd(d, d), QSumaCuadrados(g, S \ {k}, m))

\* the square of Series.std() (ddof=1): NaN with fewer than two values
Varianza(g) ==
    IF Cardinality(ConValor(g)) < 2 THEN NaN
    ELSE QEntre(QSumaCuadrados(g, ConValor(g), Media(g)), Cardinality(ConValor(g)) - 1)

\* abs(z_score) > outliers_z_score for a row of value x; a NaN z-score (NaN value
\* or NaN std) compares False
EsOutlier(x, media, var, tau) ==
    /\ notna(x)
    /\ notna(var)
    /\ LET d == QResta(x, media)
       IN  QMenor(QProd(QProd(tau, tau), var), QProd(d, d))

\* the row _detect_outliers_by_group returns for row r: std == 0 flags nothing,
\* otherwise is_outlier = abs(z_score) > outliers_z_score
FilaDetectada(r, media, var, tau) ==
    [r EXCEPT !.is_outlier = IF var = QCero THEN FALSE
                             ELSE EsOutlier(r.valor, media, var, tau)]

\* _detect_outliers_by_group
DetectarGrupo(g, tau) ==
    [k \in DOMAIN g |-> FilaDetectada(g[k], Media(g), Varianza(g), tau)]

\* the key of a row without grouping key; groupby leaves such rows out
SinClave == "nan"

ClavesGrupo(t) == { t[k].grupo : k \in DOMAIN t } \ {SinClave}

DeGrupo(t, c) == SelectSeq(t, LAMBDA r : r.grupo = c)

\* _detect_outliers: the groups in key order, each with its rows in table order
RECURSIVE DetectarClaves(_, _, _)
DetectarClaves(t, C, tau) ==
    IF C = {} THEN <<>>
    ELSE LET c == CHOOSE x \in C : \A y \in C : Orden(x) <= Orden(y)
         IN  DetectarGrupo(DeGrupo(t, c), tau) \o DetectarClaves(t, C \ {c}, tau)

DetectOutliers(t, tau) == DetectarClaves(t, ClavesGrupo(t), tau)

\* df['is_outlier'].sum()
NumOutliers(t) == Cardinality({ k \in DOMAIN t : t[k].is_outlier })

SinOutliers(t) == SelectSeq(t, LAMBDA r : ~r.is_outlier)

ConOutliers(t) == SelectSeq(t, LAMBDA r : r.is_outlier)

\* medias_limpias[c], and what map() gives for a key that is not in it
MediaLimpia(sin, c) ==
    IF c \in ClavesGrupo(sin) THEN Media(DeGrupo(sin, c)) ELSE NaN

\* (mutant) the outliers get the mean of their whole group, outliers included
CorregirConMediaGrupo(t) ==
    LET sin == SinOutliers(t)
        con == ConOutliers(t)
    IN  sin \o [k \in DOMAIN con |->
                  [con[k] EXCEPT !.valor = Media(DeGrupo(t, con[k].grupo))]]

\* one correction: the outliers get the clean mean of their group, and the
\* table is non-outliers followed by outliers
Corregir(t) ==
    LET sin == SinOutliers(t)
        con == ConOutliers(t)
    IN  sin \o [k \in DOMAIN con |-> [con[k] EXCEPT !.valor = MediaLimpia(sin, con[k].grupo)]]

\* (mutant) the loop test with >= for >
ContinuaIncluyendoUmbral(S, n, p) ==
    S >= p.outliers_min_threshold /\ n < p.outliers_max_iterations

\* (mutant) the loop test with <= for <
ContinuaUnaMas(S, n, p) ==
    S > p.outliers_min_threshold /\ n <= p.outliers_max_iterations

\* while sum_outliers > outliers_min_threshold and count < outliers_max_iterations
Continua(S, n, p) ==
    S > p.outliers_min_threshold /\ n < p.outliers_max_iterations

\* the entries process_outliers appends to remaining_outliers_info, one per group
\* with a flagged row, in key order (desviacion_media, a function of valores and
\* media_grupo, is not stored)
RECURSIVE InfoRestantes(_, _)
InfoRestantes(t, C) ==
    IF C = {} THEN <<>>
    ELSE LET c == CHOOSE x \in C : \A y \in C : Orden(x) <= Orden(y)
             fin == DeGrupo(ConOutliers(t), c)
         IN  << [grupo |-> c,
                 n_outliers |-> Len(fin),
                 valores |-> [k \in DOMAIN fin |-> fin[k].valor],
                 media_grupo |-> Media(DeGrupo(t, c))] >>
             \o InfoRestantes(t, C \ {c})

\* the summary after the loop
Resumir(sm, t, S) ==
    [initial_outliers |-> sm.initial_outliers,
     replaced_outliers |-> sm.initial_outliers - S,
     remaining_outliers |-> S,
     remaining_outliers_info |->
        IF S > 0
        THEN sm.remaining_outliers_info \o InfoRestantes(t, ClavesGrupo(ConOutliers(t)))
        ELSE sm.remaining_outliers_info]

-----------------------------------------------------------------------------
(* The caller's operations on an OutliersManager *)

MaxFilasOut == 4       \* rows of an input table
MaxUmbral == 2         \* largest outliers_min_threshold
MaxRondas == 2         \* largest outliers_max_iterations
MaxCorrecciones == 4   \* correction rounds on one instance, over all its calls

\* Input tables: any number of rows up to MaxFilasOut, none included; a row
\* has a value and a grouping key, or a value and no key (FilasSinClave).  The
\* field id stands for the other columns of the row.  Row order has no effect
\* on the statistics, so a table is enumerated once, its rows in the order of
\* (grupo, valor).
GruposOut == {"MP1", "MP2"}

ValoresOut == {0, 1, 10}

FilasSinClave == { <<SinClave, 1>> }

FilasOut == (GruposOut \X ValoresOut) \cup FilasSinClave

CodigoOut(c, v) == (IF c = SinClave THEN 0 ELSE Orden(c)) * 16 + v

RECURSIVE TablasOut(_, _)
TablasOut(n, lo) ==
    IF n = 0 THEN {<<>>}
    ELSE UNION { { << <<c, v>> >> \o t : t \in TablasOut(n - 1, CodigoOut(c, v)) } :
                 <<c, v>> \in { x \in FilasOut : CodigoOut(x[1], x[2]) >= lo } }

TablaOut(t) ==
    [k \in DOMAIN t |->
        [id |-> k, grupo |-> t[k][1], valor |-> <<t[k][2], 1>>, is_outlier |-> FALSE]]

ZScores == { <<1, 2>>, <<3, 4>>, <<1, 1>>, <<3, 1>> }

\* a column name that is None or ''
NoColumna == ""

\* parameter sets with both column names
Parametros ==
    [outliers_value_column : {"valor"},
     outliers_group_column : {"grupo"},
     outliers_z_score : ZScores,
     outliers_min_threshold : -1..MaxUmbral,
     outliers_max_iterations : 0..MaxRondas]

\* parameter sets without the name of the value column, of the grouping column
\* or of both
ParametrosIncompletos ==
    { p \in [outliers_value_column : {"valor", NoColumna},
             outliers_group_column : {"grupo", NoColumna},
             outliers_z_score : ZScores,
             outliers_min_threshold : {0},
             outliers_max_iterations : {1}] :
        p.outliers_value_column = NoColumna \/ p.outliers_group_column = NoColumna }

\* (mutant) only the name of the value column is required
RequeridosSoloValor(p) == p.outliers_value_column # NoColumna

\* __init__: not (not outliers_value_column or not outliers_group_column)
Requeridos(p) ==
    p.outliers_value_column # NoColumna /\ p.outliers_group_column # NoColumna

\* no CostCalculator has been constructed
SinCostCalculator ==
    /\ fabricaciones = <<>>
    /\ pc = "none"
    /\ i = 0
    /\ max_iteraciones = 0
    /\ nulos_anterior = <<>>
    /\ costes_fabricacion = <<>>
    /\ pasadas = 0
    /\ salida = "none"
    /\ entrada = <<>>
    /\ llamadas = 0
    /\ agregada = <<>>
    /\ falta = ""
    /\ excepcion_c = ""
    /\ tabla_llamante = <<>>
    /\ tabla_devuelta = <<>>
    /\ devuelta_era = <<>>

\* OutliersManager.__init__ has raised ValueError: no attribute was assigned
ConstruccionFallida ==
    /\ df = <<>>
    /\ summary = <<>>
    /\ pc_o = "invalid"
    /\ excepcion = "ValueError"

\* OutliersManager.__init__ has copied the table
Construido ==
    /\ df = df_llamante
    /\ summary = [initial_outliers |-> 0, replaced_outliers |-> 0,
                  remaining_outliers |-> 0, remaining_outliers_info |-> <<>>]
    /\ pc_o = "idle"
    /\ excepcion = ""

\* OutliersManager.__init__ on a table of T with a parameter set of P
InitOutCon(T, P) ==
    /\ df_llamante \in T
    /\ params \in P
    /\ IF Requeridos(params) THEN Construido ELSE ConstruccionFallida
    /\ aux = FALSE
    /\ count = 0
    /\ sum_outliers = 0
    /\ original = df_llamante
    /\ antes = df
    /\ detecciones = 0
    /\ reemplazos = 0
    /\ procesos = 0
    /\ rondas = 0
    /\ df_obtenida = <<>>
    /\ obtenida_era = <<>>
    /\ SinCostCalculator
    /\ SinDataFrameCleaner

InitOut ==
    InitOutCon({ TablaOut(t) : t \in UNION { TablasOut(n, 0) : n \in 0..MaxFilasOut } },
               Parametros \cup ParametrosIncompletos)

\* the OutliersManager exists and is in none of its methods
Libre == pc_o \in {"idle", "error"}

\* process_outliers on a table without any row that has a grouping key:
\* _detect_outliers has no group to concatenate and pd.concat raises ValueError
ProcesarSinGrupos ==
    /\ Libre
    /\ procesos < MaxLlamadas
    /\ ClavesGrupo(df) = {}
    /\ pc_o' = "error"
    /\ excepcion' = "ValueError"
    /\ count' = 0
    /\ detecciones' = 0
    /\ reemplazos' = 0
    /\ procesos' = procesos + 1
    /\ antes' = df
    /\ UNCHANGED <<df, aux, params, sum_outliers, summary, original, rondas>>
    /\ UNCHANGED marco_o
    /\ UNCHANGED <<cvars, lvars>>

\* process_outliers up to the loop: the first detection (a call is started
\* while its iterations fit in MaxCorrecciones)
Procesar ==
    /\ Libre
    /\ procesos < MaxLlamadas
    /\ rondas + params.outliers_max_iterations <= MaxCorrecciones
    /\ ClavesGrupo(df) # {}
    /\ df' = DetectOutliers(df, params.outliers_z_score)
    /\ aux' = TRUE
    /\ summary' = [summary EXCEPT !.initial_outliers = NumOutliers(df')]
    /\ count' = 0
    /\ sum_outliers' = NumOutliers(df')
    /\ pc_o' = "while"
    /\ detecciones' = 1
    /\ reemplazos' = 0
    /\ procesos' = procesos + 1
    /\ antes' = df
    /\ excepcion' = ""
    /\ UNCHANGED <<params, original, rondas>>
    /\ UNCHANGED marco_o
    /\ UNCHANGED <<cvars, lvars>>

\* the rest of process_outliers after the loop
Terminar(n) ==
    /\ count' = n
    /\ summary' = Resumir(summary, df, sum_outliers)
    /\ pc_o' = "idle"
    /\ UNCHANGED <<df, aux, params, sum_outliers, original, antes, detecciones,
                   reemplazos, procesos, rondas, excepcion>>
    /\ UNCHANGED marco_o
    /\ UNCHANGED <<cvars, lvars>>

\* a loop iteration that corrects and detects again
Ronda ==
    /\ pc_o = "while"
    /\ Continua(sum_outliers, count, params)
    /\ ConOutliers(df) # <<>>
    /\ count' = count + 1
    /\ df' = DetectOutliers(Corregir(df), params.outliers_z_score)
    /\ sum_outliers' = NumOutliers(df')
    /\ detecciones' = detecciones + 1
    /\ reemplazos' = reemplazos + Len(ConOutliers(df))
    /\ rondas' = rondas + 1
    /\ UNCHANGED <<aux, params, summary, pc_o, original, antes, procesos, excepcion>>
    /\ UNCHANGED marco_o
    /\ UNCHANGED <<cvars, lvars>>

\* a loop iteration that finds no outlier row: break
RondaVacia ==
    /\ pc_o = "while"
    /\ Continua(sum_outliers, count, params)
    /\ ConOutliers(df) = <<>>
    /\ Terminar(count + 1)

\* the loop test fails
FinBucle ==
    /\ pc_o = "while"
    /\ ~Continua(sum_outliers, count, params)
    /\ Terminar(count)

NextOut ==
    \/ ProcesarSinGrupos
    \/ Procesar
    \/ Ronda
    \/ RondaVacia
    \/ FinBucle

SpecOut == InitOut /\ [][NextOut]_vars

\* get_df: return self.df, the manager's own table object.  No method writes
\* into that object (process_outliers and clean_columns build a new table and
\* assign it to self.df), so the table handed out stays as it was
GetDf ==
    /\ Libre
    /\ df_obtenida' = df
    /\ obtenida_era' = df
    /\ UNCHANGED <<df, aux, params, count, sum_outliers, summary, pc_o, original, antes,
                   detecciones, reemplazos, procesos, rondas, excepcion, df_llamante>>
    /\ UNCHANGED <<cvars, lvars>>

\* clean_columns on a table that has z_score and is_outlier
CleanColumns ==
    /\ Libre
    /\ aux
    /\ df' = [k \in DOMAIN df |-> [df[k] EXCEPT !.is_outlier = FALSE]]
    /\ aux' = FALSE
    /\ UNCHANGED <<params, count, sum_outliers, summary, pc_o, original, antes,
                   detecciones, reemplazos, procesos, rondas, excepcion>>
    /\ UNCHANGED marco_o
    /\ UNCHANGED <<cvars, lvars>>

\* clean_columns on a table without them: drop raises KeyError
CleanColumnsSinAux ==
    /\ Libre
    /\ ~aux
    /\ pc_o' = "error"
    /\ excepcion' = "KeyError"
    /\ UNCHANGED <<df, aux, params, count, sum_outliers, summary, original, antes,
                   detecciones, reemplazos, procesos, rondas>>
    /\ UNCHANGED marco_o
    /\ UNCHANGED <<cvars, lvars>>

\* either engine, built on a table of at most MaxFilas - 1 (MaxFilasOut - 2)
\* rows, under every operation a caller has
InitMarco ==
    \/ InitConFalta(TablasHasta(FilasBOM, MaxFilas - 1), {""})
    \/ InitOutCon({ TablaOut(t) :
                       t \in UNION { TablasOut(n, 0) : n \in 0..(MaxFilasOut - 2) } },
                  Parametros)

NextMarco ==
    \/ \E m \in 0..MaxIteraciones : Llamar(m)
    \/ Agotado
    \/ TodosCalculados
    \/ SinProgreso
    \/ Pasada
    \/ GenerarCostesFabricacion
    \/ ProcesarSinGrupos
    \/ Procesar
    \/ Ronda
    \/ RondaVacia
    \/ FinBucle
    \/ GetDf
    \/ CleanColumns
    \/ CleanColumnsSinAux

SpecMarco == InitMarco /\ [][NextMarco]_vars

-----------------------------------------------------------------------------
(* Vocabulary of the claims about the outlier engine *)

\* process_outliers has returned
DevueltoOut == pc_o = "idle" /\ procesos >= 1

\* process_outliers has ended with an exception
FalladoOut == pc_o = "error" /\ procesos >= 1

\* correction rounds of the running / last call: every detection after the
\* first follows a correction
Correcciones == detecciones - 1

\* the rows of a table without the is_outlier column
Datos(t) == { <<t[k].id, t[k].grupo, t[k].valor>> : k \in DOMAIN t }

MismasFilas(a, b) == Len(a) = Len(b) /\ Datos(a) = Datos(b)

-----------------------------------------------------------------------------
(* C8 *)

\* C8: a call of process_outliers never makes more than outliers_max_iterations
\* correction rounds, and it ends: its first step enters the loop or ends the
\* call, and every step of the loop either returns or uses up one more of the
\* at most outliers_max_iterations iterations.
C8_TerminaOut ==
    /\ [](/\ count <= params.outliers_max_iterations
          /\ Correcciones <= params.outliers_max_iterations
          /\ reemplazos > 0 => Correcciones >= 1)
    /\ [][ /\ pc_o # "while" => (pc_o' = "while" /\ count' = 0) \/ FalladoOut'
           /\ pc_o = "while" =>
                \/ DevueltoOut'
                \/ pc_o' = "while" /\ count' = count + 1 ]_vars

\* a call used all its iterations and left more outliers than the threshold
C8_Witness ==
    /\ DevueltoOut
    /\ params.outliers_max_iterations >= 1
    /\ Correcciones = params.outliers_max_iterations
    /\ sum_outliers > params.outliers_min_threshold
    /\ sum_outliers > 0

-----------------------------------------------------------------------------
(* C9 *)

\* C9: at the loop test, at the first detection or after a correction, a count
\* of outliers that is at most outliers_min_threshold ends the call: no further
\* correction, the table and the residual outliers' values as they are.
C9_Umbral ==
    [][ (pc_o = "while" /\ sum_outliers <= params.outliers_min_threshold)
        => (/\ DevueltoOut'
            /\ df' = df
            /\ count' = count
            /\ detecciones' = detecciones
            /\ reemplazos' = reemplazos
            /\ summary'.remaining_outliers = sum_outliers) ]_vars

\* a call returned with as many outliers as the threshold, none corrected,
\* with iterations to spare
C9_Witness ==
    /\ DevueltoOut
    /\ sum_outliers = params.outliers_min_threshold
    /\ sum_outliers > 0
    /\ NumOutliers(df) = sum_outliers
    /\ params.outliers_max_iterations >= 1
    /\ Correcciones = 0
    /\ MismasFilas(df, antes)

-----------------------------------------------------------------------------
(* C10 *)

\* no row of the table is an outlier
Limpia(t, tau) == NumOutliers(DetectOutliers(t, tau)) = 0

\* C10: a call on a table without outliers returns the same rows with the same
\* values, after one detection and without replacing any value.
C10_Idempotente ==
    ((DevueltoOut \/ FalladoOut) /\ Limpia(antes, params.outliers_z_score)) =>
        /\ DevueltoOut
        /\ MismasFilas(df, antes)
        /\ detecciones = 1
        /\ reemplazos = 0

-----------------------------------------------------------------------------
(* C11.  The one-group tables of values 10 and 1000 *)

MaxFilasEj == 6        \* rows of a table of values 10 and 1000

\* n rows of group MP1: k times 10, then n - k times 1000
TablasEj ==
    { [j \in 1..n |-> <<"MP1", IF j <= k THEN 10 ELSE 1000>>] :
        n \in 2..MaxFilasEj, k \in 0..MaxFilasEj }

ParametrosEj ==
    [outliers_value_column : {"valor"},
     outliers_group_column : {"grupo"},
     outliers_z_score : { <<2, 1>>, <<3, 1>> },
     outliers_min_threshold : -1..MaxUmbral,
     outliers_max_iterations : 0..MaxRondas]

InitEj == InitOutCon({ TablaOut(t) : t \in TablasEj }, ParametrosEj)

NextEj ==
    \/ Procesar
    \/ Ronda
    \/ RondaVacia
    \/ FinBucle

SpecEj == InitEj /\ [][NextEj]_vars

\* the table [10, 10, 10, 10, 10, 1000] of one group
Ejemplo(t) ==
    /\ Len(t) = 6
    /\ \A k \in 1..5 : t[k].valor = <<10, 1>>
    /\ t[6].valor = <<1000, 1>>

\* the value of the row of table t that has the id n
ValorDe(t, n) == (CHOOSE r \in { t[k] : k \in DOMAIN t } : r.id = n).valor

\* the first call on the example, with threshold 0 and an iteration to use
LlamadaEjemplo(tau) ==
    /\ DevueltoOut
    /\ procesos = 1
    /\ Ejemplo(antes)
    /\ params.outliers_z_score = tau
    /\ params.outliers_min_threshold = 0
    /\ params.outliers_max_iterations >= 1

\* C11 as stated: with z-score threshold 3 the row of value 1000 of the example
\* is flagged and gets the clean mean 10.
C11_Original ==
    LlamadaEjemplo(<<3, 1>>) =>
        /\ summary.initial_outliers = 1
        /\ ValorDe(df, 6) = <<10, 1>>

\* C11 amended: the z-score of 1000 in the example is 5/sqrt(6), about 2.04.
\* With threshold 3 no row is flagged and the table comes back unchanged; with
\* threshold 2 the row of value 1000 is the one outlier and gets the clean
\* mean 10, the other rows keep their 10.
C11_Ejemplo ==
    /\ LlamadaEjemplo(<<3, 1>>) =>
          /\ summary.initial_outliers = 0
          /\ reemplazos = 0
          /\ MismasFilas(df, antes)
    /\ LlamadaEjemplo(<<2, 1>>) =>
          /\ summary.initial_outliers = 1
          /\ reemplazos = 1
          /\ \A n \in 1..6 : ValorDe(df, n) = <<10, 1>>
          /\ summary.remaining_outliers = 0

\* the call on the example with threshold 2 has replaced 1000 by 10
C11_Witness ==
    /\ LlamadaEjemplo(<<2, 1>>)
    /\ ValorDe(df, 6) = <<10, 1>>
    /\ ValorDe(antes, 6) = <<1000, 1>>
    /\ reemplazos = 1

-----------------------------------------------------------------------------
(* C12 *)

\* the rows of group c that the last detection did not flag
LimpiasDe(t, c) == SelectSeq(t, LAMBDA r : r.grupo = c /\ ~r.is_outlier)

Ids(t) == { t[k].id : k \in DOMAIN t }

FilaDe(t, n) == CHOOSE r \in { t[k] : k \in DOMAIN t } : r.id = n

\* C12: a correction round keeps the rows and their grouping keys, gives every
\* flagged row the mean of the non-flagged rows of its group as they were before
\* the round (no value when the group has none), and leaves the value of every
\* other row as it was.
C12_Reemplazo ==
    [][ rondas' = rondas + 1 =>
          /\ Len(df') = Len(df)
          /\ Ids(df') = Ids(df)
          /\ \A k \in DOMAIN df :
                LET r == df[k]
                    s == FilaDe(df', r.id)
                IN  /\ s.grupo = r.grupo
                    /\ s.valor = IF r.is_outlier THEN Media(LimpiasDe(df, r.grupo))
                                 ELSE r.valor ]_vars

\* a call on a table of four rows or more has replaced a value by the clean
\* mean of its group
C12_Witness ==
    /\ DevueltoOut
    /\ reemplazos >= 1
    /\ Len(df) >= 4
    /\ \E n \in Ids(df) : /\ notna(ValorDe(df, n))
                          /\ ValorDe(df, n) # ValorDe(antes, n)

-----------------------------------------------------------------------------
(* C13 *)

\* the parameter set lacks the name of the value column or of the grouping column
Incompleto(p) ==
    p.outliers_value_column = NoColumna \/ p.outliers_group_column = NoColumna

\* no detection and no correction was made, and the caller's table is as given
NadaHecho ==
    /\ df = <<>>
    /\ detecciones = 0
    /\ reemplazos = 0
    /\ rondas = 0
    /\ procesos = 0
    /\ df_llamante = original

\* C13 as stated: the construction with an incomplete parameter set fails with
\* a ConfigurationError, and nothing is detected or corrected.
C13_Original ==
    Incompleto(params) =>
        (pc_o = "invalid" /\ excepcion = "ConfigurationError" /\ NadaHecho)

\* C13 amended: the construction with an incomplete parameter set fails with
\* a ValueError, and nothing is detected or corrected, then or later.
C13_ValueError ==
    Incompleto(params) =>
        (pc_o = "invalid" /\ excepcion = "ValueError" /\ NadaHecho)

\* the construction on a table of three rows or more, with the name of the
\* value column but not that of the grouping column, has failed
C13_Witness ==
    /\ pc_o = "invalid"
    /\ params.outliers_value_column = "valor"
    /\ params.outliers_group_column = NoColumna
    /\ Len(df_llamante) >= 3

\* ---------------------------------------------------------------------------
\* C14  Tables that lack a required column
\* ---------------------------------------------------------------------------

\* C14: for every table that lacks one of the required columns, constructing
\* the CostCalculator and running calcular_costes_recursivamente fails (with a
\* ConfigurationError) instead of returning a result.  The formula is the part
\* that does not depend on the class of the exception: no call on such a table
\* returns a result.
C14_Original ==
    falta \in ColumnasRequeridas => ~Devuelto

-----------------------------------------------------------------------------
(* C15, C16 *)

\* the caller's table has the columns it was given with: the constructor's
\* flag_coste_calculado is not among them
SinColumnaFlag(t) == \A n \in DOMAIN t : "flag_coste_calculado" \notin DOMAIN t[n]

\* C15: the table object the caller passed to the constructor of either engine
\* has the same rows, columns and values after any sequence of operations: the
\* constructor adds no column to it, no step of an operation changes it, and
\* the outlier engine's is still the table it was built from.
C15_Entrada ==
    /\ [](SinColumnaFlag(tabla_llamante) /\ df_llamante = original)
    /\ [][tabla_llamante' = tabla_llamante /\ df_llamante' = df_llamante]_vars

\* a pass has written costs into the engine's table, which now differs from
\* the caller's
C15_Witness ==
    /\ Devuelto
    /\ pasadas > 0
    /\ Nulos(fabricaciones) < Nulos(entrada)
    /\ Nulos(tabla_llamante) = Nulos(entrada)

\* C16: a table that calcular_costes_recursivamente or get_df returned is not
\* changed by any later operation on the same engine: it is as it was when it
\* was returned.
C16_Original ==
    /\ tabla_devuelta = devuelta_era
    /\ df_obtenida = obtenida_era

-----------------------------------------------------------------------------
(* C17 *)

\* the n_outliers of the entries of remaining_outliers_info, added up
RECURSIVE SumaNOutliers(_)
SumaNOutliers(info) ==
    IF info = <<>> THEN 0 ELSE Head(info).n_outliers + SumaNOutliers(Tail(info))

\* the entries of remaining_outliers_info about group c
EntradasDe(info, c) == { k \in DOMAIN info : info[k].grupo = c }

\* C17: after any sequence of one or more process_outliers calls,
\* remaining_outliers is the number of rows flagged in the current table, and
\* remaining_outliers_info has exactly one entry per group with a flagged row
\* (and none for other groups), whose n_outliers add up to remaining_outliers.
C17_Original ==
    DevueltoOut =>
        LET info == summary.remaining_outliers_info
            C    == ClavesGrupo(ConOutliers(df))
        IN  /\ summary.remaining_outliers = NumOutliers(df)
            /\ \A c \in C : Cardinality(EntradasDe(info, c)) = 1
            /\ \A k \in DOMAIN info : info[k].grupo \in C
            /\ SumaNOutliers(info) = summary.remaining_outliers

-----------------------------------------------------------------------------
(* C18 *)

\* C18: after process_outliers, replaced_outliers equals the number of rows
\* whose value was replaced by a clean mean during that call.
C18_Original ==
    DevueltoOut => summary.replaced_outliers = reemplazos

-----------------------------------------------------------------------------
(* C19 *)

\* the groups with a row whose value a correction left missing: the clean set
\* of the group was empty, and map() gave NaN (no input value is missing)
GruposVaciados(t) == { t[k].grupo : k \in { j \in DOMAIN t : isna(t[j].valor) } }

\* C19: when a correction round meets a group with an empty clean set,
\* processing continues and the condition is recorded in the summary: after the
\* call, the summary names every group whose values were left missing (the
\* entries of remaining_outliers_info are the only part of the summary that
\* names a group).
C19_Original ==
    (DevueltoOut \/ FalladoOut) =>
        /\ GruposVaciados(df) # {} => DevueltoOut
        /\ \A c \in GruposVaciados(df) :
              EntradasDe(summary.remaining_outliers_info, c) # {}

-----------------------------------------------------------------------------
(* C20 *)

\* _calcular_coste_producto with its total taken from the table t0
CalcularCosteProductoDesde(t, t0, producto) ==
    LET coste_total == CosteTotal(t0, producto)
        mask == MaskComoComponente(t, producto)
    IN  [n \in DOMAIN t |->
            IF n \in mask
            THEN [t[n] EXCEPT !.coste_componente_unitario = <<coste_total>>,
                              !.flag_coste_calculado = TRUE]
            ELSE t[n]]

\* the loop over calculables with every total computed from the table t0
RECURSIVE PropagarDesde(_, _, _)
PropagarDesde(t, t0, G) ==
    IF G = {} THEN t
    ELSE LET g == Primero(G)
         IN  PropagarDesde(CalcularCosteProductoDesde(t, t0, g), t0, G \ {g})

\* one pass with a barrier: every total is computed from the costs at the start
\* of the pass
PasadaConBarrera(t) == ActualizarFlags(PropagarDesde(t, t, Calculables(t)))

\* C20: within one pass, the total computed for each resolvable instance uses
\* the cost values as they were at the start of the pass, never a cost written
\* earlier in the same pass by another instance: the table after the pass is
\* the one a pass with a barrier gives.  Stated for the tables of the
\* propagator's contract, in which no semi-finished component has a cost when
\* the engine is built.
C20_Original ==
    [][(pasadas' = pasadas + 1 /\ SemDesconocidos(tabla_llamante))
          => fabricaciones' = PasadaConBarrera(fabricaciones)]_vars

-----------------------------------------------------------------------------
(* C21 *)

\* the orders in which the product instances of G can be processed
Ordenes(G) ==
    { s \in [1..Cardinality(G) -> G] : \A g \in G : \E k \in DOMAIN s : s[k] = g }

\* the loop over calculables, taken in the order s
RECURSIVE PropagarEnOrden(_, _)
PropagarEnOrden(t, s) ==
    IF s = <<>> THEN t
    ELSE PropagarEnOrden(CalcularCosteProducto(t, Head(s)), Tail(s))

\* C21: the returned table does not depend on the order in which the resolvable
\* product instances of a pass are processed.  Stated for the calls that
\* resolve every row in their first pass, whose returned table is the table
\* after that pass: every order of processing gives that same table.
C21_Original ==
    [][(pasadas = 0 /\ pasadas' = 1 /\ TodosResueltos(Nulos(fabricaciones')))
          => \A s \in Ordenes(Calculables(fabricaciones)) :
                ActualizarFlags(PropagarEnOrden(fabricaciones, s)) = fabricaciones']_vars

-----------------------------------------------------------------------------
(* C22 *)

\* the cost and the flag of every row
CostesYFlags(t) ==
    [n \in DOMAIN t |-> <<t[n].coste_componente_unitario, t[n].flag_coste_calculado>>]

\* the resolvable instances of t that no row consumes
Hojas(t) == { g \in Calculables(t) : MaskComoComponente(t, g) = {} }

\* C22: computing the cost of a resolvable product instance that no row names
\* as its componente leaves the cost and the flag of every row unchanged.  In
\* a pass, the rows the loop over the instances leaves are those the loop over
\* the consumed instances alone leaves.
C22_HojaSinEfecto ==
    [][pasadas' = pasadas + 1 =>
          /\ \A g \in Hojas(fabricaciones) :
                CostesYFlags(CalcularCosteProducto(fabricaciones, g))
                    = CostesYFlags(fabricaciones)
          /\ fabricaciones' =
                ActualizarFlags(Propagar(fabricaciones,
                                         Calculables(fabricaciones) \ Hojas(fabricaciones)))]_vars

\* a pass has processed a finished product that nothing consumes, next to a
\* semi-finished one that is consumed
C22_Witness ==
    /\ pc = "loop"
    /\ pasadas = 1
    /\ Hojas(entrada) # {}
    /\ Hojas(entrada) # Calculables(entrada)
    /\ Nulos(fabricaciones) < Nulos(entrada)

-----------------------------------------------------------------------------
(* C23 *)

\* C23: during calcular_costes_recursivamente a row with a cost never loses
\* it, so the number of rows without cost never grows, from pass to pass and
\* from one call to the next on the same instance.
C23_Monotona ==
    [][/\ \A n \in Filas(fabricaciones) :
             notna(fabricaciones[n].coste_componente_unitario)
                 => notna(fabricaciones'[n].coste_componente_unitario)
       /\ Nulos(fabricaciones') <= Nulos(fabricaciones)]_vars

\* a second call on the instance has resolved further rows
C23_Witness ==
    /\ llamadas = 2
    /\ pasadas >= 1
    /\ Nulos(fabricaciones) < Nulos(entrada)
    /\ Nulos(fabricaciones) > 0

-----------------------------------------------------------------------------
(* C24 *)

\* C24 (as stated): every row that has a cost in the input table has exactly
\* that cost in the returned table.
C24_Original ==
    Devuelto =>
        \A n \in Filas(fabricaciones) :
            notna(tabla_llamante[n].coste_componente_unitario)
                => fabricaciones[n].coste_componente_unitario
                       = tabla_llamante[n].coste_componente_unitario

\* C24 (amended): every row whose componente is not the articulo of a product
\* of the table has in the returned table the cost it has in the input table,
\* null or not.
C24_NoProducto ==
    Devuelto =>
        \A n \in Filas(fabricaciones) :
            fabricaciones[n].componente \notin Articulos(tabla_llamante)
                => fabricaciones[n].coste_componente_unitario
                       = tabla_llamante[n].coste_componente_unitario

\* a call has returned a table in which the known cost of a raw material is
\* kept and the known cost of a semi-finished product has been replaced
C24_Witness ==
    /\ Devuelto
    /\ pasadas > 0
    /\ \E n \in Filas(fabricaciones) :
          /\ fabricaciones[n].componente \notin Articulos(tabla_llamante)
          /\ notna(tabla_llamante[n].coste_componente_unitario)
    /\ \E n \in Filas(fabricaciones) :
          /\ notna(tabla_llamante[n].coste_componente_unitario)
          /\ fabricaciones[n].coste_componente_unitario
                 # tabla_llamante[n].coste_componente_unitario

-----------------------------------------------------------------------------
(* C25 *)

\* C25: whenever calcular_costes_recursivamente returns with no unresolved row,
\* every row whose componente is the articulo of a product holds the total
\* sum(consumo_unitario * coste_componente_unitario), evaluated on the returned
\* table, of at least one batch of that product.  Checked on the tables of
\* the propagator's contract.
C25_Original ==
    (Devuelto /\ TodosResueltos(Nulos(fabricaciones))) =>
        \A n \in Filas(fabricaciones) :
            fabricaciones[n].componente \in Articulos(fabricaciones) =>
                \E g \in Grupos(fabricaciones) :
                    /\ g[1] = fabricaciones[n].componente
                    /\ fabricaciones[n].coste_componente_unitario
                           = <<CosteTotal(fabricaciones, g)>>

-----------------------------------------------------------------------------
(* C26 *)

\* C26: when the call stops before exhausting max_iteraciones, every row left
\* without cost consumes a componente of which no (articulo, lote_articulo)
\* instance has all its rows resolved; and a row without cost whose componente
\* is no articulo of the table stays without cost in every state, whatever
\* max_iteraciones is.
C26_Maximal ==
    /\ (Devuelto /\ salida \in {"stall", "resolved"}) =>
          \A n \in Filas(fabricaciones) :
              isna(fabricaciones[n].coste_componente_unitario) =>
                  \A g \in Calculables(fabricaciones) : g[1] # fabricaciones[n].componente
    /\ \A n \in Filas(fabricaciones) :
          (/\ isna(tabla_llamante[n].coste_componente_unitario)
           /\ fabricaciones[n].componente \notin Articulos(fabricaciones))
              => isna(fabricaciones[n].coste_componente_unitario)

\* a call has stalled with a row that consumes a semi-finished componente that
\* is no articulo, and a row that consumes a product not fully resolved
C26_Witness ==
    /\ Devuelto
    /\ salida = "stall"
    /\ pasadas >= 1
    /\ \E n \in Filas(fabricaciones) :
          /\ isna(fabricaciones[n].coste_componente_unitario)
          /\ startswith_SEM(fabricaciones[n].componente)
          /\ fabricaciones[n].componente \notin Articulos(fabricaciones)
    /\ \E n \in Filas(fabricaciones) :
          /\ isna(fabricaciones[n].coste_componente_unitario)
          /\ fabricaciones[n].componente \in Articulos(fabricaciones)

-----------------------------------------------------------------------------
(* C27 *)

\* the loop of process_outliers from the table t with S outliers after n
\* iterations, to the table it ends with
RECURSIVE BucleOutliers(_, _, _, _)
BucleOutliers(t, S, n, p) ==
    IF Continua(S, n, p) /\ ConOutliers(t) # <<>>
    THEN LET d == DetectOutliers(Corregir(t), p.outliers_z_score)
         IN  BucleOutliers(d, NumOutliers(d), n + 1, p)
    ELSE t

\* the table process_outliers ends with on a table t that has a group
ProcessOutliers(t, p) ==
    LET d == DetectOutliers(t, p.outliers_z_score)
    IN  BucleOutliers(d, NumOutliers(d), 0, p)

\* C27: for fixed parameters, the values process_outliers returns for the rows
\* of one group depend only on that group's input rows: they are the values it
\* returns when the input table holds the rows of that group alone.
C27_Original ==
    (DevueltoOut /\ procesos = 1) =>
        \A c \in ClavesGrupo(original) :
            Datos(DeGrupo(df, c)) = Datos(ProcessOutliers(DeGrupo(original, c), params))

-----------------------------------------------------------------------------
(* C28 *)

\* C28: for every input table, including rows whose grouping key is missing,
\* the table held after process_outliers has exactly one row for each input
\* row, with the same grouping key.
C28_Original ==
    (DevueltoOut /\ procesos = 1) =>
        /\ Len(df) = Len(original)
        /\ { <<df[k].id, df[k].grupo>> : k \in DOMAIN df }
               = { <<original[k].id, original[k].grupo>> : k \in DOMAIN original }

-----------------------------------------------------------------------------
(* C29 *)

\* C29: after process_outliers the summary has
\* 0 <= remaining_outliers <= initial_outliers, hence replaced_outliers >= 0.
C29_Original ==
    DevueltoOut =>
        /\ 0 <= summary.remaining_outliers
        /\ summary.remaining_outliers <= summary.initial_outliers
        /\ summary.replaced_outliers >= 0

-----------------------------------------------------------------------------
(***************************************************************************)
(* cleaning/cleaner_df.py                                                  *)
(*                                                                         *)
(* A table is [columnas, filas]: the set of its column names and the       *)
(* sequence of its rows, each row a function from the columns to cells.    *)
(* A cell is the sequence of the characters of its value: <<"l", "1">> is  *)
(* 'l1', <<"1", ",", "5">> is '1,5' and, in a float column, <<"1", ".",    *)
(* "5">> is 1.5.  NA is the missing value.                                 *)
(***************************************************************************)
MaxFilasLimpieza == 2  \* rows of the table given to the DataFrameCleaner
MaxOperaciones == 3    \* cleaning operations called on one DataFrameCleaner

NA == <<"NaN">>

ColumnasSucias == {"lote_interno", "cantidad", "proveedor"}

FilasSucias ==
    [lote_interno : {<<"l", "1">>, <<"L", "1">>, NA},
     cantidad : {<<"1", ",", "5">>, <<"1", ".", "5">>},
     proveedor : {<<"a">>, <<"A">>}]

TablasSucias ==
    { [columnas |-> ColumnasSucias, filas |-> f] :
        f \in UNION { [1..n -> FilasSucias] : n \in 0..MaxFilasLimpieza } }

\* the rows of f at the positions of the set S, in their order
FilasEn(f, S) ==
    LET RECURSIVE Desde(_)
        Desde(k) ==
            IF k > Len(f) THEN <<>>
            ELSE (IF k \in S THEN <<f[k]>> ELSE <<>>) \o Desde(k + 1)
    IN Desde(1)

\* ColumnsCleaner.keep_and_rename(cols, None): .loc[:, cols]
KeepAndRename(t, cols) ==
    [columnas |-> cols,
     filas |-> [k \in DOMAIN t.filas |-> [c \in cols |-> t.filas[k][c]]]]

\* RowsCleaner.drop_duplicates(): of equal rows the first stays
DropDuplicates(t) ==
    [t EXCEPT !.filas =
        FilasEn(t.filas, { k \in DOMAIN t.filas :
                             \A j \in 1..(k - 1) : t.filas[j] # t.filas[k] })]

\* RowsCleaner.drop_na(): rows with a missing value in any column go
DropNa(t) ==
    [t EXCEPT !.filas =
        FilasEn(t.filas, { k \in DOMAIN t.filas :
                             \A c \in t.columnas : t.filas[k][c] # NA })]

\* RowsCleaner.drop_duplicates_batch(column): of the rows with the same value
\* in the column (NA included) the last stays
DropDuplicatesBatch(t, column) ==
    [t EXCEPT !.filas =
        FilasEn(t.filas, { k \in DOMAIN t.filas :
                             \A j \in (k + 1)..Len(t.filas) :
                                 t.filas[j][column] # t.filas[k][column] })]

\* str -> float as fix_numeric_format does it: the dots are removed, the
\* comma becomes a dot, and the text is read as a float (written back with
\* its decimal part, '15' as 15.0)
ANumero(v) ==
    LET sin_puntos == SelectSeq(v, LAMBDA c : c # ".")
        con_punto == [k \in DOMAIN sin_puntos |->
                         IF sin_puntos[k] = "," THEN "." ELSE sin_puntos[k]]
    IN IF v = NA THEN NA
       ELSE IF \E k \in DOMAIN con_punto : con_punto[k] = "." THEN con_punto
       ELSE con_punto \o <<".", "0">>

\* DataCleaner.fix_numeric_format(cols)
FixNumericFormat(t, cols) ==
    [t EXCEPT !.filas =
        [k \in DOMAIN t.filas |->
            [c \in t.columnas |->
                IF c \in cols THEN ANumero(t.filas[k][c]) ELSE t.filas[k][c]]]]

\* str.upper on the characters of the model
Upper(v) ==
    [k \in DOMAIN v |-> CASE v[k] = "l" -> "L"
                          [] v[k] = "a" -> "A"
                          [] OTHER -> v[k]]

\* DataCleaner.to_upper(): every value that is not NA, in the columns of
\* strings (a float column is left alone, and has no letter in it)
ToUpper(t) ==
    [t EXCEPT !.filas =
        [k \in DOMAIN t.filas |->
            [c \in t.columnas |->
                IF t.filas[k][c] = NA THEN NA ELSE Upper(t.filas[k][c])]]]

\* the operations, each with the sub-cleaner class that has it
OperacionesLimpieza ==
    [keep_and_rename |-> "columns", drop_duplicates |-> "rows", drop_na |-> "rows",
     drop_duplicates_batch |-> "rows", fix_numeric_format |-> "data",
     to_upper |-> "data"]

\* the operation op with the arguments of the model, on the table t
Aplicar(op, t) ==
    CASE op = "keep_and_rename" -> KeepAndRename(t, {"lote_interno", "cantidad"})
      [] op = "drop_duplicates" -> DropDuplicates(t)
      [] op = "drop_na" -> DropNa(t)
      [] op = "drop_duplicates_batch" -> DropDuplicatesBatch(t, "lote_interno")
      [] op = "fix_numeric_format" -> FixNumericFormat(t, {"cantidad"})
      [] op = "to_upper" -> ToUpper(t)

\* DataFrameCleaner(df): the table is copied, no sub-cleaner exists yet
InitLimpieza ==
    /\ df_cleaner \in TablasSucias
    /\ sub_cleaners = [c \in {"columns", "rows", "data"} |-> <<>>]
    /\ esperada = df_cleaner
    /\ operaciones = 0
    /\ df_limpia = <<>>
    /\ SinCostCalculator
    /\ SinOutliersManager

\* cleaner.<clase>_cleaner: the sub-cleaner is made on first access, with a
\* copy of the table the facade holds then, and kept
SubCleaner(clase) ==
    IF sub_cleaners[clase] = <<>> THEN df_cleaner ELSE sub_cleaners[clase][1]

\* cleaner.<clase>_cleaner.<op>(...): the operation works on the sub-cleaner's
\* own table and the result is assigned to the facade
Operar(op) ==
    LET clase == OperacionesLimpieza[op]
        nueva == Aplicar(op, SubCleaner(clase))
    IN /\ operaciones < MaxOperaciones
       /\ sub_cleaners' = [sub_cleaners EXCEPT ![clase] = <<nueva>>]
       /\ df_cleaner' = nueva
       /\ esperada' = Aplicar(op, esperada)
       /\ operaciones' = operaciones + 1
       /\ df_limpia' = <<>>
       /\ UNCHANGED <<cvars, ovars>>

\* cleaner.<desde>_cleaner.<clase>_cleaner.<op>(...): BaseCleaner's property
\* makes a new sub-cleaner whose parent is the sub-cleaner `desde`, with a
\* copy of its table; the result is assigned to that parent, not to the facade
Encadenar(desde, op) ==
    LET nueva == Aplicar(op, SubCleaner(desde))
    IN /\ operaciones < MaxOperaciones
       /\ desde # OperacionesLimpieza[op]
       /\ sub_cleaners' = [sub_cleaners EXCEPT ![desde] = <<nueva>>]
       /\ esperada' = Aplicar(op, esperada)
       /\ operaciones' = operaciones + 1
       /\ df_limpia' = <<>>
       /\ UNCHANGED df_cleaner
       /\ UNCHANGED <<cvars, ovars>>

\* DataFrameCleaner.get_df
GetDfLimpia ==
    /\ df_limpia = <<>>
    /\ df_limpia' = <<df_cleaner>>
    /\ UNCHANGED <<df_cleaner, sub_cleaners, esperada, operaciones>>
    /\ UNCHANGED <<cvars, ovars>>

NextLimpieza ==
    \/ \E op \in DOMAIN OperacionesLimpieza : Operar(op)
    \/ \E desde \in {"columns", "rows", "data"}, op \in DOMAIN OperacionesLimpieza :
          Encadenar(desde, op)
    \/ GetDfLimpia

SpecLimpieza == InitLimpieza /\ [][NextLimpieza]_vars

-----------------------------------------------------------------------------
(* C30 *)

\* C30: after any sequence of cleaning operations called through the
\* columns_cleaner, rows_cleaner and data_cleaner of a DataFrameCleaner, in any
\* order and interleaving, chains from one sub-cleaner to another included,
\* get_df returns the original table with all of those operations applied in
\* call order.
C30_Original ==
    df_limpia # <<>> => df_limpia[1] = esperada

=============================================================================
